---- MODULE Spec2Model ----
(***************************************************************************)
(* State-machine model of rBergomiMCState (src/src/model/rbergomi.py): the *)
(* hybrid-scheme Monte Carlo path state of the rough Bergomi model.        *)
(*                                                                         *)
(* Numbers.  The program computes in floating point; the model computes in *)
(* integers.  Times are counted in ticks of half the negligible-step       *)
(* threshold, so that a positive step below the threshold exists.  ALPHA,  *)
(* RHO, XI and ETA are carried in hundredths (ALPHA = -45 is -0.45), which *)
(* is why 1 appears as 100 and 1 - rho**2 as 10000 - rho^2.  sqrt is the   *)
(* integer square root; ** and exp, which have no integer counterpart for  *)
(* fractional exponents, are fixed positive integer-valued functions of    *)
(* their arguments (Pow, Exp); / is integer division.  Every expression of *)
(* the program keeps its shape and its operands.                           *)
(*                                                                         *)
(* Random source.  Generator(SFC64(seed)) is a deterministic stream: the   *)
(* model keeps its seed and the number of standard normal variates it has  *)
(* handed out (pos), and variate i of stream seed is StdNormal(seed, i).   *)
(***************************************************************************)
EXTENDS Integers, Sequences, FiniteSets

VARIABLES
    dataset,      \* the dataset the state was constructed from
    constructed,  \* TRUE iff __init__ returned (an object exists)
    rho_comp,     \* self.rho_comp
    rng,          \* self.rng: [seed, pos]
    x_vec,        \* self.x_vec: log stock process, one entry per path
    V,            \* self.V: variance process, one entry per path
    G,            \* self.G: kernel weights, indices 0..Capacity-1
    X,            \* self.X: vol driver history, X[p][j], j in 0..Capacity-1
    k,            \* self.k: step counter
    cur_time,     \* self.cur_time
    YR,           \* the local YR of the last advance that computed it
    call,         \* the last call made on the state: [op, arg]
    outcome,      \* how that call ended: a return value or a raised exception
    replica,      \* a second rBergomiMCState built from the same dataset
    script        \* the advance arguments given to the state so far

vars == <<dataset, constructed, rho_comp, rng, x_vec, V, G, X, k, cur_time,
          YR, call, outcome, replica, script>>

----------------------------------------------------------------------------
\* Bounds of the model and constants of the program

\* np.zeros(1000), np.zeros((n, 1000)): the preallocated length
Capacity == 1000

\* the 1e-10 of `if dt < 1e-10`, in ticks
NegligibleStep == 2

\* number of advance calls a scripted run makes
MaxCalls == 3

\* largest step, in ticks, a scripted run asks for
MaxDt == 3

\* the step, in ticks, of the long run that fills the history
LongDt == 2

\* number of further calls the long run makes once an advance has raised
MaxRaised == 2

----------------------------------------------------------------------------
\* Arithmetic

\* np.sqrt on a non-negative number: the integer square root
RECURSIVE SqrtFrom(_, _)
SqrtFrom(x, r) == IF (r + 1) * (r + 1) > x THEN r ELSE SqrtFrom(x, r + 1)

Sqrt(x) == SqrtFrom(x, 0)

\* x ** e with e in hundredths: positive, determined by x and e
Pow(x, e) == 1 + ((3 * x + e) % 5)

\* np.exp: positive, determined by its argument
Exp(z) == 1 + (z % 7)

\* g(x, a) = x**a
g(x, a) == Pow(x, a)

\* b(k, a) = ((k**(a+1) - (k-1)**(a+1)) / (a+1)) ** (1/a)
b(kk, a) ==
    Pow((Pow(kk, a + 100) - Pow(kk - 1, a + 100)) \div (a + 100), 10000 \div a)

\* cov(a, dt): the 2x2 covariance matrix, rows and columns indexed 0..1
cov(a, dt) ==
    LET c01 == Pow(dt, a + 100) \div (a + 100)
    IN  [i \in 0..1 |-> [j \in 0..1 |->
            IF i = 0 /\ j = 0 THEN dt
            ELSE IF i = 1 /\ j = 1 THEN Pow(dt, 2 * a + 100) \div (2 * a + 100)
            ELSE c01]]

----------------------------------------------------------------------------
\* Arrays: Python indexing and slicing

\* a[i] is legal for -len <= i < len; anything else raises IndexError
InBounds(i, len) == -len <= i /\ i < len

\* the cell a[i] names: a negative index counts from the end
Cell(i, len) == IF i < 0 THEN i + len ELSE i

\* a[:stop] on an axis of length len: the cells it selects, as the first
\* cell, the number of cells and the stride
SliceUp(len, stop) ==
    LET hi == IF stop < 0 THEN stop + len ELSE stop
    IN  [first |-> 0,
         count |-> IF hi < 0 THEN 0 ELSE IF hi > len THEN len ELSE hi,
         step  |-> 1]

\* a[start:stop:-1] (start, stop >= 0) on an axis of length len
SliceDown(len, start, stop) ==
    LET first == IF start > len - 1 THEN len - 1 ELSE start
    IN  [first |-> first,
         count |-> IF first > stop THEN first - stop ELSE 0,
         step  |-> -1]

\* the cells of array arr that slice sl selects, in the slice's order
Take(arr, sl) == [i \in 1..sl.count |-> arr[sl.first + sl.step * (i - 1)]]

\* np.zeros(len)
Zeros(len) == [i \in 0..(len - 1) |-> 0]

\* the sum of xs[i] * ws[i] for i in lo..hi
RECURSIVE DotRange(_, _, _, _)
DotRange(xs, ws, lo, hi) ==
    IF lo > hi THEN 0
    ELSE IF lo = hi THEN xs[lo] * ws[lo]
    ELSE LET mid == (lo + hi) \div 2
         IN  DotRange(xs, ws, lo, mid) + DotRange(xs, ws, mid + 1, hi)

\* np.dot(A, w) of a matrix given as one row per path and a vector
Dot(A, w) == [p \in DOMAIN A |-> DotRange(A[p], w, 1, Len(w))]

----------------------------------------------------------------------------
\* Random source

\* variate i of Generator(SFC64(seed)): a standard normal draw, never 0
StdNormal(seed, i) ==
    LET h == ((((seed + i) * (seed + i + 1)) \div 2) + 3 * (i \div 4) + seed) % 4
    IN  IF h = 0 THEN -2 ELSE IF h = 1 THEN -1 ELSE IF h = 2 THEN 1 ELSE 2

\* variant: one generator for the whole process, shared by every state
GenPosShared(s) == rng.pos + replica.obj.rng.pos

\* the position in the stream from which state s draws next: self.rng's own
GenPos(s) == s.rng.pos

\* rng.multivariate_normal(mean, c, n): n rows of 2, from 2n variates
multivariate_normal(seed, pos, mean, c, n) ==
    [p \in 1..n |->
        LET z0 == StdNormal(seed, pos + 2 * (p - 1))
            z1 == StdNormal(seed, pos + 2 * (p - 1) + 1)
        IN  [i \in 0..1 |->
                IF i = 0 THEN mean[0] + c[0][0] * z0
                ELSE mean[1] + c[1][0] * z0 + c[1][1] * z1]]

\* .transpose() of an n x 2 array: 2 rows of n
transpose(rows) == [i \in 0..1 |-> [p \in DOMAIN rows |-> rows[p][i]]]

\* rng.normal(loc, scale, n): n draws, from n variates
normal(seed, pos, loc, scale, n) ==
    [p \in 1..n |-> loc + scale * StdNormal(seed, pos + (p - 1))]

----------------------------------------------------------------------------
\* Outcomes of a call

Return(v) == [kind |-> "return", none |-> FALSE, value |-> v, exc |-> ""]

ReturnNone == [kind |-> "return", none |-> TRUE, value |-> <<>>, exc |-> ""]

Raise(e) == [kind |-> "raise", none |-> FALSE, value |-> <<>>, exc |-> e]

----------------------------------------------------------------------------
\* Datasets

\* asset_fwd.forward(0): the 100 of the forward curve at time 0
Spot == 100

\* asset_fwd.rate(new_time, cur_time): depends on both ends of the step
FwdRate(new_time, old_time) == (new_time + 2 * old_time) % 3

\* the dataset of the module's own driver, PATHS cut down
BaseDataset ==
    [PATHS |-> 2, SEED |-> 1, ASSET |-> "SPX",
     ALPHA |-> -45, RHO |-> -80, XI |-> 11, ETA |-> 250]

\* the parameter domain the specification states
InDomain(ds) ==
    /\ ds.PATHS > 0
    /\ -50 < ds.ALPHA /\ ds.ALPHA < 0
    /\ -100 <= ds.RHO /\ ds.RHO <= 100
    /\ ds.XI > 0
    /\ ds.ETA >= 0

Datasets ==
    {[BaseDataset EXCEPT !.SEED = sd] : sd \in {1, 2}}
    \cup {[BaseDataset EXCEPT !.ALPHA = -70], [BaseDataset EXCEPT !.ALPHA = 10],
          [BaseDataset EXCEPT !.RHO = 150], [BaseDataset EXCEPT !.XI = 0],
          [BaseDataset EXCEPT !.ETA = -100],
          [BaseDataset EXCEPT !.PATHS = 0], [BaseDataset EXCEPT !.PATHS = -1]}

Units == {"SPX", "USD"}

----------------------------------------------------------------------------
\* rBergomiMCState.__init__

\* np.sqrt(1 - self.rho**2): NaN (a warning, no exception) below zero
RhoComp(rho) ==
    IF 10000 - rho * rho < 0
    THEN [nan |-> TRUE, val |-> 0]
    ELSE [nan |-> FALSE, val |-> Sqrt(10000 - rho * rho)]

\* __init__(timetable, dataset): the object it leaves and how it ends.
\* np.zeros(n) raises ValueError for n < 0, before any array is assigned;
\* no other parameter value is examined.
Construct(ds) ==
    LET nn   == ds.PATHS
        made == nn >= 0
        obj  == [n        |-> nn,
                 asset    |-> ds.ASSET,
                 spot     |-> Spot,
                 a        |-> ds.ALPHA,
                 rho      |-> ds.RHO,
                 rho_comp |-> RhoComp(ds.RHO),
                 xi       |-> ds.XI,
                 eta      |-> ds.ETA,
                 rng      |-> [seed |-> ds.SEED, pos |-> 0],
                 x_vec    |-> IF made THEN [p \in 1..nn |-> 0] ELSE <<>>,
                 V        |-> IF made THEN [p \in 1..nn |-> ds.XI] ELSE <<>>,
                 G        |-> IF made THEN Zeros(Capacity) ELSE <<>>,
                 X        |-> IF made THEN [p \in 1..nn |-> Zeros(Capacity)]
                              ELSE <<>>,
                 k        |-> 0,
                 mean     |-> [i \in 0..1 |-> 0],
                 cur_time |-> 0,
                 YR       |-> <<>>]
    IN  [ok  |-> made,
         obj |-> obj,
         out |-> IF made THEN ReturnNone ELSE Raise("ValueError")]

----------------------------------------------------------------------------
\* rBergomiMCState.advance

\* variant: only a step of zero or less is skipped
IsNegligibleNonPositive(dt) == dt <= 0

\* if dt < 1e-10: return
IsNegligible(dt) == dt < NegligibleStep

\* dwv of advance(new_time) on s: rng.multivariate_normal(...).transpose()
Dwv(s, new_time) ==
    transpose(multivariate_normal(s.rng.seed, GenPos(s), s.mean,
                                  cov(s.a, new_time - s.cur_time), s.n))

\* dws of advance(new_time) on s: the normal draw plus rho * dwv[0]
Dws(s, new_time) ==
    LET dws0 == normal(s.rng.seed, GenPos(s) + 2 * s.n, 0,
                       Sqrt(new_time - s.cur_time) * s.rho_comp.val, s.n)
        dwv0 == Dwv(s, new_time)[0]
    IN  [p \in 1..s.n |-> dws0[p] + s.rho * dwv0[p]]

\* variant: the drift is scaled by the new time, not by the step
LogStepAbsoluteTime(s, new_time, dws, p) ==
    (s.x_vec[p] + (FwdRate(new_time, s.cur_time) - (s.V[p] \div 2)) * new_time)
    + Sqrt(s.V[p]) * dws[p]

\* self.x_vec after the two in-place additions of one step, for path p
LogStep(s, new_time, dws, p) ==
    LET dt       == new_time - s.cur_time
        fwd_rate == FwdRate(new_time, s.cur_time)
    IN  (s.x_vec[p] + (fwd_rate - (s.V[p] \div 2)) * dt)
        + Sqrt(s.V[p]) * dws[p]

\* self.X[:, : kk - 1]: per path, the history columns the convolution reads
HistoryWindow(XX, kk) ==
    [p \in DOMAIN XX |-> Take(XX[p], SliceUp(Capacity, kk - 1))]

\* variant: the weights 2..kk in storage order, not reversed
KernelWindowAscending(GG, kk) ==
    Take(GG, [first |-> 2, count |-> IF kk > 1 THEN kk - 1 ELSE 0, step |-> 1])

\* self.G[kk : 1 : -1]: the kernel weights the convolution reads
KernelWindow(GG, kk) == Take(GG, SliceDown(Capacity, kk, 1))

\* self.V after the step, for path p
NewVariance(s, new_time, YE, YRn, p) ==
    LET Y == Sqrt(2 * s.a + 100) * (YE[p] + YRn[p])
    IN  s.xi * Exp(s.eta * Y
                   - ((s.eta * s.eta * Pow(new_time, 2 * s.a + 100)) \div 2))

\* advance(new_time) on the object s: the object it leaves and how it ends.
\* An exception leaves every assignment made before it in place.
advance(s, new_time) ==
    LET dt == new_time - s.cur_time
    IN
    IF IsNegligible(dt) THEN [obj |-> s, out |-> ReturnNone]
    ELSE
    LET dwv == Dwv(s, new_time)
        dws == Dws(s, new_time)
        s1  == [s EXCEPT !.rng.pos = GenPos(s) + 3 * s.n,
                         !.x_vec = [p \in 1..s.n |->
                                       LogStep(s, new_time, dws, p)]]
        YE  == dwv[1]
    IN
    IF ~InBounds(s.k, Capacity) THEN [obj |-> s1, out |-> Raise("IndexError")]
    ELSE
    LET k1 == s.k + 1
        s2 == [s1 EXCEPT !.X = [p \in 1..s.n |->
                                   [s.X[p] EXCEPT ![Cell(s.k, Capacity)] =
                                                       dwv[0][p]]],
                         !.k = k1]
    IN
    IF k1 > 1 /\ ~InBounds(k1, Capacity)
    THEN [obj |-> s2, out |-> Raise("IndexError")]
    ELSE
    LET s3 == IF k1 > 1
              THEN [s2 EXCEPT !.G[Cell(k1, Capacity)] =
                                  g(b(k1, s.a) * dt, s.a)]
              ELSE s2
        hw == HistoryWindow(s3.X, k1)
        kw == KernelWindow(s3.G, k1)
    IN
    IF \E p \in 1..s.n : Len(hw[p]) # Len(kw)
    THEN [obj |-> s3, out |-> Raise("ValueError")]
    ELSE
    LET YRn == Dot(hw, kw)
    IN  [obj |-> [s3 EXCEPT !.YR = YRn,
                            !.V = [p \in 1..s.n |->
                                      NewVariance(s, new_time, YE, YRn, p)],
                            !.cur_time = new_time],
         out |-> ReturnNone]

----------------------------------------------------------------------------
\* rBergomiMCState.get_value

\* variant: another unit is answered with the forward, not with None
get_value_forward(s, unit) ==
    IF unit = s.asset
    THEN Return([p \in 1..s.n |-> s.spot * Exp(s.x_vec[p])])
    ELSE Return([p \in 1..s.n |-> s.spot])

\* get_value(unit) on the object s: what it returns
get_value(s, unit) ==
    IF unit = s.asset
    THEN Return([p \in 1..s.n |-> s.spot * Exp(s.x_vec[p])])
    ELSE ReturnNone

----------------------------------------------------------------------------
\* The state machine

\* the object the variables hold
Self ==
    [n        |-> dataset.PATHS,
     asset    |-> dataset.ASSET,
     spot     |-> Spot,
     a        |-> dataset.ALPHA,
     rho      |-> dataset.RHO,
     rho_comp |-> rho_comp,
     xi       |-> dataset.XI,
     eta      |-> dataset.ETA,
     rng      |-> rng,
     x_vec    |-> x_vec,
     V        |-> V,
     G        |-> G,
     X        |-> X,
     k        |-> k,
     mean     |-> [i \in 0..1 |-> 0],
     cur_time |-> cur_time,
     YR       |-> YR]

\* the variables take the fields of object o
Becomes(o) ==
    /\ rho_comp' = o.rho_comp
    /\ rng' = o.rng
    /\ x_vec' = o.x_vec
    /\ V' = o.V
    /\ G' = o.G
    /\ X' = o.X
    /\ k' = o.k
    /\ cur_time' = o.cur_time
    /\ YR' = o.YR

Init ==
    /\ dataset \in Datasets
    /\ LET c == Construct(dataset)
       IN  /\ constructed = c.ok
           /\ rho_comp = c.obj.rho_comp
           /\ rng = c.obj.rng
           /\ x_vec = c.obj.x_vec
           /\ V = c.obj.V
           /\ G = c.obj.G
           /\ X = c.obj.X
           /\ k = c.obj.k
           /\ cur_time = c.obj.cur_time
           /\ YR = c.obj.YR
           /\ call = [op |-> "__init__", arg |-> 0]
           /\ outcome = c.out
           /\ replica = [obj |-> c.obj, done |-> 0, out |-> c.out]
    /\ script = <<>>

\* the numerics of advance are modelled for parameters inside the domain
Usable == constructed /\ InDomain(dataset)

\* the caller runs advance(t) on the state
Advance(t) ==
    /\ Usable
    /\ LET r == advance(Self, t)
       IN  /\ Becomes(r.obj)
           /\ outcome' = r.out
    /\ call' = [op |-> "advance", arg |-> t]
    /\ UNCHANGED <<dataset, constructed, replica>>

\* a scripted run: any time from one tick back to MaxDt ticks ahead
ScriptedAdvance ==
    /\ Len(script) < MaxCalls
    /\ \E t \in (cur_time - 1)..(cur_time + MaxDt) :
          /\ Advance(t)
          /\ script' = Append(script, t)

\* the caller reads a unit's value
GetValue ==
    /\ constructed
    /\ \E unit \in Units :
          /\ outcome' = get_value(Self, unit)
          /\ call' = [op |-> "get_value", arg |-> unit]
    /\ UNCHANGED <<dataset, constructed, rho_comp, rng, x_vec, V, G, X, k,
                   cur_time, YR, replica, script>>

\* the second state is given the next advance of the script
Replay ==
    /\ Usable
    /\ replica.done < Len(script)
    /\ LET r == advance(replica.obj, script[replica.done + 1])
       IN  replica' = [obj |-> r.obj, done |-> replica.done + 1, out |-> r.out]
    /\ UNCHANGED <<dataset, constructed, rho_comp, rng, x_vec, V, G, X, k,
                   cur_time, YR, call, outcome, script>>

Next == ScriptedAdvance \/ GetValue \/ Replay

Spec == Init /\ [][Next]_vars

\* number of advance calls so far that drew from the random source
EffectiveCalls == rng.pos \div (3 * dataset.PATHS)

\* the long run: steps of LongDt ticks until the history is full and past
\* it, with a backward and a zero step offered at every time
LongAdvance ==
    /\ Usable
    /\ EffectiveCalls < Capacity + MaxRaised
    /\ \E t \in {cur_time - 1, cur_time, cur_time + LongDt} : Advance(t)
    /\ UNCHANGED script

LongNext == LongAdvance

LongRun == Init /\ [][LongNext]_vars

----------------------------------------------------------------------------
\* Properties

\* a step in which the caller ran advance(call'.arg) on the state
AdvanceStep == call'.op = "advance" /\ replica' = replica

\* the step of that call
StepDt == call'.arg - cur_time

\* the fields of the state a call may change
fields == <<x_vec, V, k, cur_time, X, G, rng>>

\* C1: an advance whose step is at least 0 and below the negligible-step
\* threshold returns normally, leaves logPrice, variance, stepCount,
\* currentTime, the history and the weights as they were, and draws nothing
\* from the random source.
C1_NegligibleStepIsNoOp ==
    [][(AdvanceStep /\ 0 <= StepDt /\ StepDt < NegligibleStep)
       => (UNCHANGED fields /\ outcome'.kind = "return")]_vars

\* a positive step below the threshold was asked for, after real steps
C1_Witness ==
    /\ call.op = "advance"
    /\ call.arg - cur_time > 0 /\ call.arg - cur_time < NegligibleStep
    /\ outcome.kind = "return"
    /\ k >= 1
    /\ rng.pos = 3 * dataset.PATHS * k

\* C2: an advance to a time before currentTime ends in an error surfaced
\* to the caller, not in a normal return, and changes no state.
C2_BackwardTimeIsRejected ==
    [][(AdvanceStep /\ StepDt < 0)
       => (outcome'.kind = "raise" /\ UNCHANGED fields)]_vars

\* C3: from a fresh state the first 1000 effective advances complete: an
\* effective advance that starts with fewer than 1000 completed steps
\* returns normally, and one that starts with 1000 completed steps is the
\* first to fail.
C3_CapacityIsThousandSteps ==
    [][(AdvanceStep /\ StepDt >= NegligibleStep)
       => /\ k < Capacity => outcome'.kind = "return"
          /\ k >= Capacity => outcome'.kind = "raise"]_vars

\* C4: an advance that fails because the history is full leaves logPrice,
\* variance, stepCount, currentTime, the history, the weights and the
\* random source exactly as they were.
C4_FailedAdvanceChangesNothing ==
    [][(AdvanceStep /\ outcome'.kind = "raise") => UNCHANGED fields]_vars

\* C5: construction from a dataset whose roughness, correlation, base
\* variance, vol-of-vol or path count is outside its domain ends in an
\* error and produces no state.
C5_InvalidParametersAreRejected ==
    ~InDomain(dataset) => (~constructed /\ call.op = "__init__"
                           /\ outcome.kind = "raise")

ColumnsWritten == {j \in 0..(Capacity - 1) : X[1][j] # 0}

\* the kernel weights written so far
WeightsWritten == {j \in 0..(Capacity - 1) : G[j] # 0}

\* C7: stepCount starts at 0, never decreases, equals the number of history
\* columns written, and the number of kernel weights written is
\* max(0, stepCount - 1).
C7_StepCountMatchesBuffers ==
    [][Usable =>
        /\ k' >= k
        /\ k >= 0
        /\ Cardinality(ColumnsWritten') = k'
        /\ Cardinality(WeightsWritten') = IF k' > 1 THEN k' - 1 ELSE 0]_vars

\* C8: get_value changes no state; for the simulated asset it returns
\* spot * exp(logPrice) per path, for any other unit it returns None.
C8_GetValueIsPureRead ==
    [][(call'.op = "get_value" /\ replica' = replica)
       => /\ UNCHANGED fields
          /\ outcome' =
                IF call'.arg = dataset.ASSET
                THEN Return([p \in 1..dataset.PATHS |-> Spot * Exp(x_vec[p])])
                ELSE ReturnNone]_vars

\* another unit was asked for after the paths had moved
C8_Witness ==
    /\ call.op = "get_value"
    /\ call.arg # dataset.ASSET
    /\ outcome.kind = "return" /\ outcome.none
    /\ k >= 1
    /\ \E p \in 1..dataset.PATHS : x_vec[p] # 0

\* the sum over j = from..kk-2 of history[j] * weight[kk - j] on path p
RECURSIVE ConvolutionFrom(_, _, _)
ConvolutionFrom(p, kk, from) ==
    IF from > kk - 2 THEN 0
    ELSE X[p][from] * G[kk - from] + ConvolutionFrom(p, kk, from + 1)

\* C9: after the k-th effective advance, within capacity, the convolution
\* term is the sum over j = 0..k-2 of history[j] * weight[k - j]: k - 1
\* terms, the oldest driver with the newest weight, without the driver of
\* this step, with weights 2..k only, and 0 on the first step.
C9_ConvolutionPairsOldestWithNewest ==
    (Usable /\ 1 <= k /\ k < Capacity)
        => \A p \in 1..dataset.PATHS : YR[p] = ConvolutionFrom(p, k, 0)

\* three steps taken, and pairing the weights the other way round would
\* give another sum
C9_Witness ==
    /\ Usable
    /\ k = 3
    /\ YR[1] = X[1][0] * G[3] + X[1][1] * G[2]
    /\ YR[1] # X[1][0] * G[2] + X[1][1] * G[3]

\* C10: an effective advance adds to logPrice the increment built from the
\* variance and currentTime of before the call; when it completes,
\* currentTime is the new time and variance is the new variance.
C10_LogPriceUsesPreviousVariance ==
    [][(AdvanceStep /\ StepDt >= NegligibleStep)
       => /\ x_vec' = [p \in 1..dataset.PATHS |->
                         x_vec[p]
                         + (FwdRate(call'.arg, cur_time) - (V[p] \div 2))
                           * (call'.arg - cur_time)
                         + Sqrt(V[p]) * Dws(Self, call'.arg)[p]]
          /\ outcome'.kind = "return"
             => /\ cur_time' = call'.arg
                /\ V' = [p \in 1..dataset.PATHS |->
                           NewVariance(Self, call'.arg,
                                       Dwv(Self, call'.arg)[1], YR', p)]]_vars

\* the second state is one call behind the first and shows the state the
\* last advance started from: its variance was no longer the base variance,
\* and the variance the advance produced differs from it
C10_Witness ==
    /\ Usable
    /\ call.op = "advance" /\ outcome.kind = "return"
    /\ Len(script) >= 2 /\ replica.done = Len(script) - 1
    /\ cur_time = script[Len(script)]
    /\ k = replica.obj.k + 1 /\ k >= 2
    /\ replica.obj.V[1] # dataset.XI
    /\ V[1] # replica.obj.V[1]
    /\ (cur_time - replica.obj.cur_time) * (V[1] \div 2)
          # (cur_time - replica.obj.cur_time) * (replica.obj.V[1] \div 2)

====
